---- MODULE Spec2Model ----
(***************************************************************************)
(* Link-preview resolver of threadbound (package urlprocessor) and its     *)
(* callers (texgen / markdown generators, TeX plugin).                     *)
(*                                                                         *)
(* Text is a sequence of tokens.  A token is a string: the scheme token    *)
(* "https://" stands for the characters matched by `https?://`, a host or  *)
(* path token stands for a run of URL characters, " " is whitespace and    *)
(* "." is one of the trailing punctuation characters.                     *)
(***************************************************************************)
EXTENDS Integers, Sequences, FiniteSets, TLC

\* ------------------------------------------------------------------ bounds
MaxTextLen == 6
MaxMessages == 2
MaxAttachments == 1
MaxBlobURLs == 2
MaxImageIndex == 1
MaxCalls == 2
MaxCandidates == 3
MaxJobs == 2
MaxCommands == 11
MaxRequests == 3
MaxImpls == 2

\* ------------------------------------------------------------- vocabulary
Scheme == "https://"
Delimiters == {" ", "<", ">", "{", "}", "|", "^", "[", "]"}
TrimCutset == {".", ",", ";", "!", "?", ")"}
AttachmentsPath == "Attachments"

\* --------------------------------------------------------- string helpers
RECURSIVE Concat(_)
Concat(s) == IF s = <<>> THEN "" ELSE Head(s) \o Concat(Tail(s))

RECURSIVE JoinPath(_)
JoinPath(p) ==
    IF p = <<>> THEN ""
    ELSE IF Len(p) = 1 THEN p[1]
    ELSE p[1] \o "/" \o JoinPath(Tail(p))

Base(p) == IF p = <<>> THEN "." ELSE p[Len(p)]

RECURSIVE TrimRight(_, _)
TrimRight(s, cutset) ==
    IF s # <<>> /\ s[Len(s)] \in cutset
    THEN TrimRight(SubSeq(s, 1, Len(s) - 1), cutset)
    ELSE s

RECURSIVE ReplaceAllFrom(_, _, _, _)
ReplaceAllFrom(s, old, new, i) ==
    IF i > Len(s) THEN <<>>
    ELSE IF i + Len(old) - 1 <= Len(s) /\ SubSeq(s, i, i + Len(old) - 1) = old
         THEN new \o ReplaceAllFrom(s, old, new, i + Len(old))
         ELSE <<s[i]>> \o ReplaceAllFrom(s, old, new, i + 1)

ReplaceAll(s, old, new) == ReplaceAllFrom(s, old, new, 1)

\* ------------------------------------------------------------ URL regexp
IsURLChar(c) == c \notin Delimiters

RECURSIVE MatchEnd(_, _)
MatchEnd(text, j) ==
    IF j + 1 <= Len(text) /\ IsURLChar(text[j + 1])
    THEN MatchEnd(text, j + 1)
    ELSE j

MatchesAt(text, i) ==
    /\ text[i] = Scheme
    /\ i + 1 <= Len(text)
    /\ IsURLChar(text[i + 1])

\* the matches of urlRegex, as <<first, last>> index pairs, left to right
RECURSIVE FindAllIndex(_, _)
FindAllIndex(text, i) ==
    IF i > Len(text) THEN <<>>
    ELSE IF MatchesAt(text, i)
         THEN LET e == MatchEnd(text, i + 1)
              IN  <<(<<i, e>>)>> \o FindAllIndex(text, e + 1)
         ELSE FindAllIndex(text, i + 1)

FindAllString(text) ==
    LET ms == FindAllIndex(text, 1)
    IN  [k \in 1..Len(ms) |-> SubSeq(text, ms[k][1], ms[k][2])]

Range(s) == {s[k] : k \in 1..Len(s)}

RECURSIVE CleanAndDedup_RawKey(_, _)
CleanAndDedup_RawKey(matches, urls) ==
    IF matches = <<>> THEN [k \in 1..Len(urls) |-> TrimRight(urls[k], TrimCutset)]
    ELSE CleanAndDedup_RawKey(Tail(matches),
             IF Head(matches) \in Range(urls) THEN urls ELSE Append(urls, Head(matches)))

RECURSIVE CleanAndDedup(_, _)
CleanAndDedup(matches, urls) ==
    IF matches = <<>> THEN urls
    ELSE LET cleanURL == TrimRight(Head(matches), TrimCutset)
         IN  CleanAndDedup(Tail(matches),
                 IF cleanURL \in Range(urls) THEN urls ELSE Append(urls, cleanURL))

FindURLsInText(text) ==
    IF text = <<>> THEN <<>>
    ELSE CleanAndDedup(FindAllString(text), <<>>)

\* ------------------------------------------------------------- cache path
Hash(url) == "md5(" \o Concat(url) \o ")"
CacheDir == <<AttachmentsPath, "url-thumbnails">>
CachePath(url) == Append(CacheDir, Hash(url) \o ".png")
NoPath == <<>>


\* ------------------------------------------------------------- URL parsing
\* url.Parse: the tokens "%zz" (an invalid percent escape) makes it fail
ParseOK(url) == "%zz" \notin Range(url)

Hosts == {"example.com", "www.site.org"}

Host(url) == IF Len(url) >= 2 /\ url[2] \in Hosts THEN url[2] ELSE ""

StripWWW(domain) == IF domain = "www.site.org" THEN "site.org" ELSE domain

Capitalize(domain) ==
    CASE domain = "example.com" -> "Example.com"
      [] domain = "site.org"    -> "Site.org"
      [] OTHER                  -> domain

extractDomainTitle(urlStr) ==
    IF ~ParseOK(urlStr) THEN "Web Link"
    ELSE Capitalize(StripWWW(Host(urlStr)))

\* ------------------------------------------------------------ URLThumbnail
URLThumbnail(url, title, description, success) ==
    [URL |-> url, Title |-> title, Description |-> description,
     ThumbnailPath |-> NoPath, ImagePath |-> NoPath,
     Success |-> success, Error |-> ""]

\* -------------------------------------------------------------- file system
\* The cache directory: whether files can be created in it, and the content
\* of each cache file ("absent" when there is no file).  The content names
\* the strategy that wrote the file; "old" is a file left by an earlier run
\* and "empty" a file of size zero left by an earlier run that was cut short.
Written(disk, path, content) ==
    [disk EXCEPT !.files = [disk.files EXCEPT ![path] = content]]

Exists(disk, path) == disk.files[path] # "absent"

\* magick <source> ... <target>: exit status 0 iff the conversion worked and
\* the target could be written
copyAndConvertImage(magickOK, targetPath, content, disk) ==
    IF magickOK /\ disk.writable
    THEN [ok |-> TRUE, disk |-> Written(disk, targetPath, content)]
    ELSE [ok |-> FALSE, disk |-> disk]

\* ------------------------------------------------------------- strategies
\* A strategy takes and returns the state of one resolution:
\*   ok      the strategy reported success (the caller returns result)
\*   result  the URLThumbnail being filled in
\*   disk    the file system
\*   trace   the strategies attempted so far, with the number of external
\*           processes each one started
Attempt(strategy, ok, procs) == [strategy |-> strategy, ok |-> ok, procs |-> procs]

AttachOutcomes == {"missing", "convert_fail", "ok"}
DownloadOutcomes == {"curl_fail", "empty", "convert_fail", "ok"}

\* the loop over possiblePaths; o[k] is what os.Stat and magick do for path k
RECURSIVE copyAttachmentPaths(_, _, _, _, _)
copyAttachmentPaths(thumbnailPath, o, k, procs, st) ==
    IF k > Len(o)
    THEN [st EXCEPT !.ok = FALSE,
                    !.trace = Append(st.trace, Attempt("attachment", FALSE, procs))]
    ELSE IF o[k] = "missing"
    THEN copyAttachmentPaths(thumbnailPath, o, k + 1, procs, st)
    ELSE LET c == copyAndConvertImage(o[k] = "ok", thumbnailPath, "attachment", st.disk)
         IN  IF c.ok
             THEN [st EXCEPT !.ok = TRUE,
                             !.result.ThumbnailPath = thumbnailPath,
                             !.result.Success = TRUE,
                             !.disk = c.disk,
                             !.trace = Append(st.trace, Attempt("attachment", TRUE, procs + 1))]
             ELSE copyAttachmentPaths(thumbnailPath, o, k + 1, procs + 1,
                                      [st EXCEPT !.disk = c.disk])

copyAttachmentAsImage(att, url, o, st) ==
    copyAttachmentPaths(CachePath(url), o, 1, 0, st)

downloadImageFromURL_PathFirst(strategy, targetPath, o, st) ==
    IF o = "curl_fail" \/ o = "empty"
    THEN [st EXCEPT !.ok = FALSE,
                    !.trace = Append(st.trace, Attempt(strategy, FALSE, 1))]
    ELSE LET c == copyAndConvertImage(o = "ok", targetPath, strategy, st.disk)
         IN  [st EXCEPT !.ok = c.ok,
                        !.result.ThumbnailPath = targetPath,
                        !.result.Success = c.ok,
                        !.disk = c.disk,
                        !.trace = Append(st.trace, Attempt(strategy, c.ok, 2))]

downloadImageFromURL(strategy, targetPath, o, st) ==
    IF o = "curl_fail" \/ o = "empty"
    THEN [st EXCEPT !.ok = FALSE,
                    !.trace = Append(st.trace, Attempt(strategy, FALSE, 1))]
    ELSE LET c == copyAndConvertImage(o = "ok", targetPath, strategy, st.disk)
         IN  IF c.ok
             THEN [st EXCEPT !.ok = TRUE,
                             !.result.ThumbnailPath = targetPath,
                             !.result.Success = TRUE,
                             !.disk = c.disk,
                             !.trace = Append(st.trace, Attempt(strategy, TRUE, 2))]
             ELSE [st EXCEPT !.ok = FALSE, !.disk = c.disk,
                             !.trace = Append(st.trace, Attempt(strategy, FALSE, 2))]

\* sets Title and Description, then draws the card; leaves Success and
\* ThumbnailPath to the caller
generateDomainCard(urlStr, outputPath, magickOK, st) ==
    IF ~ParseOK(urlStr)
    THEN [st EXCEPT !.ok = FALSE,
                    !.trace = Append(st.trace, Attempt("card", FALSE, 0))]
    ELSE LET domain == StripWWW(Host(urlStr))
             titled == [st.result EXCEPT !.Title = domain, !.Description = "Web link"]
             c      == copyAndConvertImage(magickOK, outputPath, "card", st.disk)
         IN  [st EXCEPT !.ok = c.ok, !.result = titled, !.disk = c.disk,
                        !.trace = Append(st.trace, Attempt("card", c.ok, 1))]


\* ------------------------------------------------------ rich-link metadata
\* The text plutil prints for a payload_data blob, reduced to what the parser
\* extracts from it: the resolved title and summary strings ("" when a hop of
\* the UID lookup is missing), the richLinkImageAttachmentSubstituteIndex
\* (<<>> when the key is absent) and the quoted https URLs in order.
PreviewCDN == "https://cdn-link-previews.example/p"
FaviconURL == "https://site.example/favicon.ico"
PageURL == "https://site.example/page"
CandidateURLs == {PreviewCDN, FaviconURL, PageURL}
OpenGraphImage == "https://site.example/og.jpg"
TouchIcon == "https://site.example/apple-touch-icon.png"

\* strings.Contains(url, sub) for the substrings the classifier looks for
Substrings(url) ==
    CASE url = PreviewCDN     -> {"cdn-link-previews"}
      [] url = FaviconURL     -> {"favicon", "icon", ".ico"}
      [] url = OpenGraphImage -> {".jpg"}
      [] url = TouchIcon      -> {"icon", ".png"}
      [] OTHER                -> {}

Contains(url, sub) == sub \in Substrings(url)

isPreviewImageURL(url) ==
    IF Contains(url, "cdn-link-previews") THEN TRUE
    ELSE IF Contains(url, "ytimg.com") /\ ~Contains(url, "favicon") THEN TRUE
    ELSE IF \E ext \in {".jpg", ".jpeg", ".png", ".webp", ".gif"} : Contains(url, ext)
         THEN IF Contains(url, "favicon") \/ Contains(url, "icon") THEN FALSE
              ELSE IF \E dim \in {"32x32", "16x16", "64x64"} : Contains(url, dim) THEN FALSE
              ELSE TRUE
    ELSE FALSE

isIconURL(url) ==
    \E sub \in {"favicon", "icon", "32x32", "16x16", "64x64"} : Contains(url, sub)

reconstructPreviewURL(plist, originalURL) == ""

IsPreview(url) == isPreviewImageURL(url)
IsIconOnly(url) == ~isPreviewImageURL(url) /\ isIconURL(url)

extractRichLinkMetadata(plist, originalURL) ==
    LET indexed     == plist.imageIndex # <<>>
        previewURLs == SelectSeq(plist.urls, IsPreview)
        iconURLs    == SelectSeq(plist.urls, IsIconOnly)
        rebuilt     == reconstructPreviewURL(plist, originalURL)
    IN  [Title      |-> plist.title,
         Summary    |-> plist.summary,
         SiteName   |-> "",
         ImageIndex |-> IF indexed THEN plist.imageIndex[1] ELSE 0,
         IconIndex  |-> 0,
         HasImage   |-> indexed \/ previewURLs # <<>> \/ rebuilt # "",
         HasIcon    |-> iconURLs # <<>>,
         ImageURL   |-> IF previewURLs # <<>> THEN previewURLs[1] ELSE rebuilt,
         IconURL    |-> IF iconURLs # <<>> THEN iconURLs[1] ELSE ""]

\* ------------------------------------------------------- the metadata path
AttachmentInRange_OffByOne(metadata, attachments) ==
    metadata.ImageIndex <= Len(attachments)

AttachmentInRange(metadata, attachments) ==
    metadata.ImageIndex < Len(attachments)

\* Try 1; indexing attachments outside its range panics
tryAttachment(url, metadata, attachments, o, st) ==
    IF metadata.HasImage /\ AttachmentInRange(metadata, attachments)
    THEN IF metadata.ImageIndex + 1 \in DOMAIN attachments
         THEN copyAttachmentAsImage(attachments[metadata.ImageIndex + 1], url, o, st)
         ELSE [st EXCEPT !.panicked = TRUE]
    ELSE st

tryImageURL_NoEarlyReturn(metadata, thumbnailPath, o, st) ==
    IF st.panicked THEN st
    ELSE IF metadata.HasImage /\ metadata.ImageURL # ""
         THEN downloadImageFromURL("image", thumbnailPath, o, st)
         ELSE st

\* Try 2, reached unless Try 1 returned the result
tryImageURL(metadata, thumbnailPath, o, st) ==
    IF st.ok \/ st.panicked THEN st
    ELSE IF metadata.HasImage /\ metadata.ImageURL # ""
         THEN downloadImageFromURL("image", thumbnailPath, o, st)
         ELSE st

\* Try 3, reached unless an earlier try returned the result
tryIconURL(metadata, thumbnailPath, o, st) ==
    IF st.ok \/ st.panicked THEN st
    ELSE IF metadata.HasIcon /\ metadata.IconURL # ""
         THEN downloadImageFromURL("icon", thumbnailPath, o, st)
         ELSE st

fallbackDomainCard_AfterSuccess(url, thumbnailPath, magickOK, st) ==
    IF st.panicked THEN st
    ELSE LET c == generateDomainCard(url, thumbnailPath, magickOK, st)
         IN  IF c.ok
             THEN [c EXCEPT !.result.ThumbnailPath = thumbnailPath,
                            !.result.Success = TRUE]
             ELSE c

\* the fallback to the domain card
fallbackDomainCard(url, thumbnailPath, magickOK, st) ==
    IF st.ok \/ st.panicked THEN st
    ELSE LET c == generateDomainCard(url, thumbnailPath, magickOK, st)
         IN  IF c.ok
             THEN [c EXCEPT !.result.ThumbnailPath = thumbnailPath,
                            !.result.Success = TRUE]
             ELSE c

Resolution(result, disk) ==
    [ok |-> FALSE, panicked |-> FALSE, result |-> result, disk |-> disk, trace |-> <<>>]

createThumbnailFromMetadata(url, metadata, attachments, env, disk) ==
    LET thumbnailPath == CachePath(url)
        st0 == Resolution(URLThumbnail(url, metadata.Title, metadata.Summary, FALSE), disk)
        st1 == tryAttachment(url, metadata, attachments, env.attach, st0)
        st2 == tryImageURL(metadata, thumbnailPath, env.image, st1)
        st3 == tryIconURL(metadata, thumbnailPath, env.icon, st2)
    IN  fallbackDomainCard(url, thumbnailPath, env.card, st3)

\* ---------------------------------------------------------- the plain path
CacheHit(disk, thumbnailPath) == Exists(disk, thumbnailPath)

ProcessURL(urlStr, env, disk) ==
    LET thumbnailPath == CachePath(urlStr)
        st0 == Resolution(URLThumbnail(urlStr, "", "", FALSE), disk)
    IN  IF CacheHit(disk, thumbnailPath)
        THEN [st0 EXCEPT !.ok = TRUE,
                         !.result.ThumbnailPath = thumbnailPath,
                         !.result.Success = TRUE,
                         !.result.Title = extractDomainTitle(urlStr)]
        ELSE LET c == generateDomainCard(urlStr, thumbnailPath, env.card, st0)
             IN  IF c.ok
                 THEN [c EXCEPT !.result.Success = TRUE,
                                !.result.ThumbnailPath = thumbnailPath]
                 ELSE [c EXCEPT !.result.Success = FALSE]


\* ------------------------------------------------------- text substitution
MessageImage(path) == "\\messageimage{" \o path \o "}"

RECURSIVE replaceEachURL(_, _, _)
replaceEachURL(result, urls, thumbnails) ==
    IF urls = <<>> THEN result
    ELSE LET urlStr == Head(urls)
         IN  IF urlStr \in DOMAIN thumbnails /\ thumbnails[urlStr].Success
             THEN LET relPath == "Attachments/url-thumbnails/"
                                     \o Base(thumbnails[urlStr].ThumbnailPath)
                      replacement == <<MessageImage(relPath)>>
                  IN  replaceEachURL(ReplaceAll(result, urlStr, replacement),
                                     Tail(urls), thumbnails)
             ELSE replaceEachURL(result, Tail(urls), thumbnails)

\* urlprocessor.ReplaceURLsWithImages, used by the texgen and markdown generators
ReplaceURLsWithImages(text, thumbnails) ==
    IF text = <<>> THEN text
    ELSE replaceEachURL(text, FindURLsInText(text), thumbnails)

\* the callback the TeX plugin hands to ReplaceAllStringFunc
texReplacement(url, thumbnails) ==
    LET cleanURL == TrimRight(url, TrimCutset)
    IN  IF /\ cleanURL \in DOMAIN thumbnails
           /\ thumbnails[cleanURL].Success
           /\ thumbnails[cleanURL].ThumbnailPath # NoPath
        THEN <<MessageImage(JoinPath(thumbnails[cleanURL].ThumbnailPath))>>
        ELSE url

RECURSIVE replaceMatches(_, _, _, _)
replaceMatches(text, ms, i, thumbnails) ==
    IF ms = <<>> THEN SubSeq(text, i, Len(text))
    ELSE LET m == Head(ms)
         IN  SubSeq(text, i, m[1] - 1)
                 \o texReplacement(SubSeq(text, m[1], m[2]), thumbnails)
                 \o replaceMatches(text, Tail(ms), m[2] + 1, thumbnails)

\* TeXPlugin.replaceURLsWithImages
replaceURLsWithImages(text, thumbnails) ==
    replaceMatches(text, FindAllIndex(text, 1), 1, thumbnails)


\* ----------------------------------------- ProcessMessageForURLPreviews
\* What the database and plutil give for one message: the row (the query
\* fails for a missing row or a NULL text), its payload_data (<<>> when the
\* column is empty, else the plist plutil prints), whether plutil runs, and
\* the attachment query with its rows.
DBMessage(rowOK, payload, plutilOK, attachmentsOK, attachments) ==
    [rowOK |-> rowOK, payload |-> payload, plutilOK |-> plutilOK,
     attachmentsOK |-> attachmentsOK, attachments |-> attachments]

NoPreview == [proceed |-> FALSE]

\* the part before the thumbnail is created: every early `return results`
previewInputs(messageText, db) ==
    IF ~db.rowOK \/ db.payload = <<>> THEN NoPreview
    ELSE LET found == FindURLsInText(messageText)
         IN  IF found = <<>> THEN NoPreview
             ELSE IF ~db.plutilOK THEN NoPreview
             ELSE IF ~db.attachmentsOK THEN NoPreview
             ELSE [proceed |-> TRUE,
                   url |-> found[1],
                   metadata |-> extractRichLinkMetadata(db.payload[1], found[1]),
                   attachments |-> db.attachments]

\* reading the row or converting its payload_data fails
BlobFailed(db) == ~db.rowOK \/ (db.payload # <<>> /\ ~db.plutilOK)

ProcessMessageForURLPreviews_FailedEntry(messageText, db, env, d) ==
    LET in == previewInputs(messageText, db)
        found == FindURLsInText(messageText)
    IN  IF ~in.proceed
        THEN [results |-> IF BlobFailed(db) /\ found # <<>>
                          THEN [u \in {found[1]} |-> URLThumbnail(u, "", "", FALSE)]
                          ELSE <<>>,
              disk |-> d, ran |-> FALSE]
        ELSE LET st == createThumbnailFromMetadata(in.url, in.metadata,
                                                   in.attachments, env, d)
             IN  [results |-> [u \in {in.url} |-> st.result], disk |-> st.disk,
                  ran |-> TRUE, url |-> in.url, panicked |-> st.panicked]

\* the whole of ProcessMessageForURLPreviews: the map it returns, the file
\* system it leaves and the resolution it ran (ran = FALSE on an early return)
ProcessMessageForURLPreviews(messageText, db, env, d) ==
    LET in == previewInputs(messageText, db)
    IN  IF ~in.proceed
        THEN [results |-> <<>>, disk |-> d, ran |-> FALSE]
        ELSE LET st == createThumbnailFromMetadata(in.url, in.metadata,
                                                   in.attachments, env, d)
             IN  [results |-> [u \in {in.url} |-> st.result], disk |-> st.disk,
                  ran |-> TRUE, url |-> in.url, panicked |-> st.panicked]

\* ------------------------------------------------------- processAllURLs
notProcessed_Always(processed, url) == TRUE

\* !processedURLs[url]
notProcessed(processed, url) == url \notin processed

Put(m, key, value) == [u \in DOMAIN m \cup {key} |-> IF u = key THEN value ELSE m[u]]

storeThumbnail_SuccessOnly(m, url, thumbnail) ==
    IF thumbnail.Success THEN Put(m, url, thumbnail) ELSE m

\* urlThumbnails[url] = thumbnail
storeThumbnail(m, url, thumbnail) == Put(m, url, thumbnail)

\* the loop over messagePreviews
RECURSIVE mergePreviews(_, _, _, _)
mergePreviews(m, processed, previews, keys) ==
    IF keys = {} THEN [urlThumbnails |-> m, processedURLs |-> processed]
    ELSE LET url == CHOOSE u \in keys : TRUE
         IN  IF notProcessed(processed, url)
             THEN mergePreviews(storeThumbnail(m, url, previews[url]),
                                processed \cup {url}, previews, keys \ {url})
             ELSE mergePreviews(m, processed, previews, keys \ {url})

\* -------------------------------------------------------- input domains
URL_A == <<Scheme, "example.com">>
URL_A_Page == <<Scheme, "example.com", "/a">>
URL_B == <<Scheme, "www.site.org">>
URL_Bad == <<Scheme, "%zz">>

Corpus ==
    { <<"hello">>,
      URL_A,
      <<"see", " ">> \o URL_A \o <<".">>,
      URL_A \o <<" ">> \o URL_A_Page,
      URL_B \o <<" ">> \o URL_A,
      URL_Bad }

AllURLs == UNION {Range(FindURLsInText(t)) : t \in Corpus}
CachePaths == {CachePath(u) : u \in AllURLs}

Plists ==
    { [title |-> t[1], summary |-> t[2], imageIndex |-> i, urls |-> us] :
        t \in {<<"", "">>, <<"Rich title", "Rich summary">>},
        i \in {<<>>} \cup {<<n>> : n \in 0..MaxImageIndex},
        us \in UNION {[1..n -> CandidateURLs] : n \in 0..MaxBlobURLs} }

AttachmentLists ==
    {[i \in 1..n |-> [ID |-> i, GUID |-> i]] : n \in 0..MaxAttachments}

DBMessages ==
    { DBMessage(FALSE, <<>>, FALSE, FALSE, <<>>),
      DBMessage(TRUE, <<>>, FALSE, FALSE, <<>>) }
    \cup {DBMessage(TRUE, <<pl>>, FALSE, FALSE, <<>>) : pl \in Plists}
    \cup {DBMessage(TRUE, <<pl>>, TRUE, FALSE, <<>>) : pl \in Plists}
    \cup {DBMessage(TRUE, <<pl>>, TRUE, TRUE, atts) : pl \in Plists, atts \in AttachmentLists}

\* what the external tools do during one resolution; outcomes of steps the
\* metadata cannot reach are fixed
Envs(metadata, attachments) ==
    { [attach |-> a, image |-> i, icon |-> c, card |-> k] :
        a \in IF metadata.HasImage /\ AttachmentInRange(metadata, attachments)
              THEN [1..2 -> AttachOutcomes] ELSE {<<"missing", "missing">>},
        i \in IF metadata.HasImage /\ metadata.ImageURL # ""
              THEN DownloadOutcomes ELSE {"curl_fail"},
        c \in IF metadata.HasIcon /\ metadata.IconURL # ""
              THEN DownloadOutcomes ELSE {"curl_fail"},
        k \in BOOLEAN }

PlainEnvs == {[card |-> k] : k \in BOOLEAN}

\* =========================================================================
\* State
\* =========================================================================
VARIABLES
    text,           \* substitution: the message text handed to the generators
    thumbnails,     \* substitution: the URL -> URLThumbnail mapping
    markdownOut,    \* substitution: result of ReplaceURLsWithImages
    texOut,         \* substitution: result of TeXPlugin.replaceURLsWithImages
    applied,        \* substitution: which of the two has run
    disk,           \* the cache directory: [writable, files]
    pc,             \* position of the caller
    target,         \* resolver calls: the URL being resolved
    calls,          \* resolver calls: resolutions completed so far
    cur,            \* resolver calls: arguments of the resolution in progress
    out,            \* resolver calls: what the last resolution returned and did
    first,          \* resolver calls: <<result of the first resolution>>
    msgCount,       \* run: messages taken from the list so far
    urls,           \* run: FindURLsInText of the message being processed
    next,           \* run: position of the fallback loop in urls
    urlThumbnails,  \* run: the URL -> URLThumbnail mapping being built
    processedURLs,  \* run: the URLs already given an entry
    extracted,      \* run: every URL found in a message text so far
    pipelineRuns,   \* run: per URL, how often a resolution was executed
    msg,            \* run: the message being processed: was its blob unusable,
                    \*      and the URLs that had an entry before it
    resolvedBy,     \* run: per stored URL, the path that produced its entry
    jobs,           \* concurrent jobs: per job, its position and what it works on
    tmpFile,        \* concurrent jobs: content of <TempDir>/payload_data.plist,
                    \*      <<>> when there is no such file
    apiJobs,        \* API: the Job structs allocated so far, by job ID
    jm,             \* API: the JobManager: IDs in its jobs map, holder of its mutex
    workers,        \* API: per job, the position of its processJob goroutine
    requests,       \* API: the HTTP requests received, each with its handler's
                    \*      position and its response
    registry,       \* plugins: Registry.plugins, plugin ID -> plugin
    registerCall    \* plugins: the last call of Register: its argument and error

substVars == <<text, thumbnails, markdownOut, texOut, applied>>
resolveVars == <<disk, pc, target, calls, cur, out, first>>

runVars == <<msgCount, urls, next, urlThumbnails, processedURLs, extracted, pipelineRuns,
             msg, resolvedBy>>
jobVars == <<jobs, tmpFile>>
apiVars == <<apiJobs, jm, workers, requests>>
registryVars == <<registry, registerCall>>
serviceVars == <<apiVars, registryVars>>

vars == <<substVars, resolveVars, runVars, jobVars, serviceVars>>

NoMessage == [blobFailed |-> FALSE, before |-> {}]

NoRun ==
    /\ msgCount = 0
    /\ urls = <<>>
    /\ next = 1
    /\ urlThumbnails = <<>>
    /\ processedURLs = {}
    /\ extracted = {}
    /\ pipelineRuns = [u \in AllURLs |-> 0]
    /\ msg = NoMessage
    /\ resolvedBy = <<>>

NoJobs ==
    /\ jobs = <<>>
    /\ tmpFile = <<>>

NoPlugin == [ID |-> "", impl |-> 0]

NoApi ==
    /\ apiJobs = <<>>
    /\ jm = [jobs |-> {}, mutex |-> 0]
    /\ workers = <<>>
    /\ requests = <<>>

NoRegistry ==
    /\ registry = <<>>
    /\ registerCall = [plugin |-> NoPlugin, err |-> <<>>]

\* ------------------------------------------------- substitution, in isolation
Alphabet == {Scheme, "a", " ", "."}
Texts == UNION {[1..n -> Alphabet] : n \in 0..MaxTextLen}

Resolved(url) ==
    [URLThumbnail(url, extractDomainTitle(url), "", TRUE)
        EXCEPT !.ThumbnailPath = CachePath(url)]
Unresolved(url) == URLThumbnail(url, "", "", FALSE)

\* the mappings a run can produce for a set of URLs: each URL has no entry,
\* a failed entry or a successful entry carrying its cache path
ThumbnailMaps(urlSet) ==
    UNION {{[u \in D |-> IF u \in ok THEN Resolved(u) ELSE Unresolved(u)] : ok \in SUBSET D}
           : D \in SUBSET urlSet}

SubstInit ==
    /\ text \in Texts
    /\ thumbnails \in ThumbnailMaps(Range(FindURLsInText(text)))
    /\ markdownOut = <<>>
    /\ texOut = <<>>
    /\ applied = {}
    /\ disk = [writable |-> TRUE, files |-> [p \in CachePaths |-> "absent"]]
    /\ pc = "subst"
    /\ target = <<>>
    /\ calls = 0
    /\ cur = [kind |-> "none"]
    /\ out = [resolved |-> FALSE]
    /\ first = <<>>
    /\ NoRun
    /\ NoJobs
    /\ NoApi
    /\ NoRegistry

SubstituteMarkdown ==
    /\ "markdown" \notin applied
    /\ markdownOut' = ReplaceURLsWithImages(text, thumbnails)
    /\ applied' = applied \cup {"markdown"}
    /\ UNCHANGED <<text, thumbnails, texOut, resolveVars, runVars, jobVars, serviceVars>>

SubstituteTeX ==
    /\ "tex" \notin applied
    /\ texOut' = replaceURLsWithImages(text, thumbnails)
    /\ applied' = applied \cup {"tex"}
    /\ UNCHANGED <<text, thumbnails, markdownOut, resolveVars, runVars, jobVars, serviceVars>>

\* FindURLsInText on the message text
FindURLs ==
    /\ "find" \notin applied
    /\ urls' = FindURLsInText(text)
    /\ applied' = applied \cup {"find"}
    /\ UNCHANGED <<text, thumbnails, markdownOut, texOut, resolveVars, msgCount, next,
                   urlThumbnails, processedURLs, extracted, pipelineRuns, msg, resolvedBy,
                   jobVars, serviceVars>>

SubstNext == SubstituteMarkdown \/ SubstituteTeX \/ FindURLs

SubstSpec == SubstInit /\ [][SubstNext]_vars


\* --------------------------------------- the resolver, called repeatedly
\* One URLProcessor on one cache directory; ProcessURL and
\* ProcessMessageForURLPreviews are called for messages whose first URL is
\* target, in any order, MaxCalls times.
TargetTexts ==
    {t \in Corpus : FindURLsInText(t) # <<>> /\ FindURLsInText(t)[1] = target}

RECURSIVE Procs(_)
Procs(trace) == IF trace = <<>> THEN 0 ELSE Head(trace).procs + Procs(Tail(trace))

\* what a finished resolution returned, with the cache file as it was before
Outcome(st, before, url) ==
    [resolved |-> TRUE, result |-> st.result, trace |-> st.trace,
     panicked |-> st.panicked, fileBefore |-> before.files[CachePath(url)]]

ResolveInit ==
    /\ target \in AllURLs
    /\ \E w \in BOOLEAN, c \in {"absent", "old", "empty"} :
          disk = [writable |-> w,
                  files |-> [p \in CachePaths |->
                                IF p = CachePath(target) THEN c ELSE "absent"]]
    /\ pc = "idle"
    /\ calls = 0
    /\ cur = [kind |-> "none"]
    /\ out = [resolved |-> FALSE]
    /\ first = <<>>
    /\ text = <<>>
    /\ thumbnails = <<>>
    /\ markdownOut = <<>>
    /\ texOut = <<>>
    /\ applied = {}
    /\ NoRun
    /\ NoJobs
    /\ NoApi
    /\ NoRegistry

\* blobIndex is the richLinkImageAttachmentSubstituteIndex of the blob the
\* metadata was parsed from, <<>> when the blob has none
Returned(st, kind, url, metadata, attachments, blobIndex) ==
    /\ out' = Outcome(st, disk, url)
    /\ cur' = [kind |-> kind, url |-> url, metadata |-> metadata,
               attachments |-> attachments, blobIndex |-> blobIndex]
    /\ disk' = st.disk
    /\ calls' = calls + 1
    /\ first' = IF first = <<>> THEN <<st.result>> ELSE first
    /\ pc' = "returned"

NoMetadata == extractRichLinkMetadata(
                  [title |-> "", summary |-> "", imageIndex |-> <<>>, urls |-> <<>>], <<>>)

CallProcessURL ==
    /\ pc = "idle"
    /\ calls < MaxCalls
    /\ \E env \in PlainEnvs :
          Returned(ProcessURL(target, env, disk), "plain", target, NoMetadata, <<>>, <<>>)
    /\ UNCHANGED <<target, substVars, runVars, jobVars, serviceVars>>

\* ProcessMessageForURLPreviews up to the attachment query
BeginPreviews ==
    /\ pc = "idle"
    /\ calls < MaxCalls
    /\ \E messageText \in TargetTexts, db \in DBMessages :
          LET in == previewInputs(messageText, db)
          IN  /\ in.proceed
              /\ cur' = [kind |-> "metadata", url |-> in.url,
                         metadata |-> in.metadata, attachments |-> in.attachments,
                         blobIndex |-> db.payload[1].imageIndex]
    /\ pc' = "create"
    /\ UNCHANGED <<disk, target, calls, out, first, substVars, runVars, jobVars, serviceVars>>

\* ProcessMessageForURLPreviews returning the empty map
PreviewsUnavailable ==
    /\ pc = "idle"
    /\ calls < MaxCalls
    /\ \E messageText \in TargetTexts, db \in DBMessages :
          ~previewInputs(messageText, db).proceed
    /\ cur' = [kind |-> "unavailable"]
    /\ out' = [resolved |-> FALSE]
    /\ pc' = "returned"
    /\ UNCHANGED <<disk, target, calls, first, substVars, runVars, jobVars, serviceVars>>

\* ProcessMessageForURLPreviews from `url := urls[0]` to its return
CreateThumbnail ==
    /\ pc = "create"
    /\ \E env \in Envs(cur.metadata, cur.attachments) :
          Returned(createThumbnailFromMetadata(cur.url, cur.metadata, cur.attachments,
                                               env, disk),
                   "metadata", cur.url, cur.metadata, cur.attachments, cur.blobIndex)
    /\ UNCHANGED <<target, substVars, runVars, jobVars, serviceVars>>

Return ==
    /\ pc = "returned"
    /\ pc' = "idle"
    /\ cur' = [kind |-> "none"]
    /\ out' = [resolved |-> FALSE]
    /\ UNCHANGED <<disk, target, calls, first, substVars, runVars, jobVars, serviceVars>>

\* the commands an attempt ran, in order
Commands(a) ==
    IF a.strategy \in {"image", "icon"}
    THEN SubSeq(<<"curl", "magick">>, 1, a.procs)
    ELSE [k \in 1..a.procs |-> "magick"]

RECURSIVE CommandsOf(_)
CommandsOf(trace) ==
    IF trace = <<>> THEN <<>> ELSE Commands(Head(trace)) \o CommandsOf(Tail(trace))

\* curl is started with --max-time 10; magick and plutil are started with
\* exec.Command and waited for with Run / Output, with no context and no timer
HasTimeout(command) == command = "curl"

\* A process the resolution started never exits on its own.  With a timeout
\* it ends as a failure of its strategy, an outcome the actions above cover;
\* without one the call that waits for it never returns.
Blocks(command) ==
    /\ ~HasTimeout(command)
    /\ pc' = "blocked"
    /\ cur' = [kind |-> "blocked", command |-> command]
    /\ UNCHANGED <<disk, target, calls, out, first, substVars, runVars, jobVars, serviceVars>>

BlockedInProcessURL ==
    /\ pc = "idle"
    /\ calls < MaxCalls
    /\ \E env \in PlainEnvs :
          \E c \in Range(CommandsOf(ProcessURL(target, env, disk).trace)) : Blocks(c)

\* plutil is started once the row is read, the blob is not empty and the
\* text has a URL
BlockedInExtractMetadata ==
    /\ pc = "idle"
    /\ calls < MaxCalls
    /\ \E messageText \in TargetTexts, db \in DBMessages :
          /\ db.rowOK
          /\ db.payload # <<>>
          /\ FindURLsInText(messageText) # <<>>
    /\ Blocks("plutil")

BlockedInCreateThumbnail ==
    /\ pc = "create"
    /\ \E env \in Envs(cur.metadata, cur.attachments) :
          \E c \in Range(CommandsOf(createThumbnailFromMetadata(
                                        cur.url, cur.metadata, cur.attachments,
                                        env, disk).trace)) : Blocks(c)

ResolveNext ==
    \/ CallProcessURL
    \/ BeginPreviews
    \/ PreviewsUnavailable
    \/ CreateThumbnail
    \/ Return
    \/ BlockedInProcessURL
    \/ BlockedInExtractMetadata
    \/ BlockedInCreateThumbnail

ResolveSpec == ResolveInit /\ [][ResolveNext]_vars

\* ------------------------------------- the metadata parser, in isolation
\* extractRichLinkMetadata applied to the plutil output of one blob, with up
\* to MaxCandidates quoted https URLs in any order.
ClassifierURLs == CandidateURLs \cup {OpenGraphImage, TouchIcon}

ClassifierPlists ==
    { [title |-> "Rich title", summary |-> "", imageIndex |-> i, urls |-> us] :
        i \in {<<>>, <<0>>},
        us \in UNION {[1..n -> ClassifierURLs] : n \in 0..MaxCandidates} }

ClassifyInit ==
    /\ pc = "blob"
    /\ \E pl \in ClassifierPlists : cur = [kind |-> "blob", plist |-> pl]
    /\ disk = [writable |-> TRUE, files |-> [p \in CachePaths |-> "absent"]]
    /\ target = URL_A
    /\ calls = 0
    /\ out = [resolved |-> FALSE]
    /\ first = <<>>
    /\ text = <<>>
    /\ thumbnails = <<>>
    /\ markdownOut = <<>>
    /\ texOut = <<>>
    /\ applied = {}
    /\ NoRun
    /\ NoJobs
    /\ NoApi
    /\ NoRegistry

ExtractMetadata ==
    /\ pc = "blob"
    /\ cur' = [kind |-> "parsed", plist |-> cur.plist,
               metadata |-> extractRichLinkMetadata(cur.plist, target)]
    /\ pc' = "parsed"
    /\ UNCHANGED <<disk, target, calls, out, first, substVars, runVars, jobVars, serviceVars>>

ClassifyNext == ExtractMetadata

ClassifySpec == ClassifyInit /\ [][ClassifyNext]_vars

\* ------------------------------------------------- TeXPlugin.escapeLaTeX
\* The text handed to escapeLaTeX holds image commands, one token each, and
\* other tokens.  A placeholder is the token "IMAGECOMMAND" followed by the
\* decimal digits of the match index, one token per digit, so that
\* strings.ReplaceAll on placeholders sees the digits as the code does.
DigitChar(d) == <<"0", "1", "2", "3", "4", "5", "6", "7", "8", "9">>[d + 1]

RECURSIVE Digits(_)
Digits(i) == IF i < 10 THEN <<DigitChar(i)>> ELSE Digits(i \div 10) \o <<DigitChar(i % 10)>>

\* fmt.Sprintf("IMAGECOMMAND%d", i)
Placeholder(i) == <<"IMAGECOMMAND">> \o Digits(i)

ImageCommand(k) == MessageImage("Attachments/url-thumbnails/" \o Concat(Digits(k)) \o ".png")

\* a match of \\messageimage\{[^}]+\}
IsImageCommand(t) == t \in {ImageCommand(k) : k \in 1..MaxCommands}

\* the first loop: every match is replaced by its placeholder
RECURSIVE Protect(_, _, _)
Protect(t, matches, i) ==
    IF matches = <<>> THEN t
    ELSE Protect(ReplaceAll(t, <<Head(matches)>>, Placeholder(i)), Tail(matches), i + 1)

\* the chain of strings.ReplaceAll on the special characters, on one token
EscapeToken(t) ==
    CASE t = "&" -> "\\&"
      [] t = "_" -> "\\_"
      [] t = "#" -> "\\#"
      [] IsImageCommand(t) ->
             "\\textbackslash\\{\\}messageimage\\{" \o "escaped" \o "\\}"
      [] OTHER   -> t

EscapeSpecials(t) == [k \in 1..Len(t) |-> EscapeToken(t[k])]

Separators == {" ", "&", "_"}

RECURSIVE CommandsText(_, _)
CommandsText(n, sep) ==
    IF n = 0 THEN <<"hello">>
    ELSE CommandsText(n - 1, sep) \o <<sep, ImageCommand(n)>>

EscapeInit ==
    /\ pc = "processed"
    /\ \E n \in 0..MaxCommands, sep \in Separators : text = CommandsText(n, sep)
    /\ texOut = <<>>
    /\ cur = [kind |-> "none"]
    /\ thumbnails = <<>>
    /\ markdownOut = <<>>
    /\ applied = {}
    /\ disk = [writable |-> TRUE, files |-> [p \in CachePaths |-> "absent"]]
    /\ target = <<>>
    /\ calls = 0
    /\ out = [resolved |-> FALSE]
    /\ first = <<>>
    /\ NoRun
    /\ NoJobs
    /\ NoApi
    /\ NoRegistry

\* escapeLaTeX up to the loop that restores the image commands
ProtectAndEscape ==
    /\ pc = "processed"
    /\ LET matches == SelectSeq(text, IsImageCommand)
       IN  /\ texOut' = EscapeSpecials(Protect(text, matches, 0))
           /\ cur' = [kind |-> "escape",
                      imageCommands |-> [ph \in {Placeholder(i - 1) : i \in 1..Len(matches)}
                                           |-> LET i == CHOOSE i \in 1..Len(matches) :
                                                            Placeholder(i - 1) = ph
                                               IN  matches[i]],
                      remaining |-> {Placeholder(i - 1) : i \in 1..Len(matches)}]
    /\ pc' = "restoring"
    /\ UNCHANGED <<text, thumbnails, markdownOut, applied, disk, target, calls, out, first,
                   runVars, jobVars, serviceVars>>

\* one iteration of `for placeholder, imageCommand := range imageCommands`;
\* the iteration order of a Go map is unspecified
RestoreCommand ==
    /\ pc = "restoring"
    /\ \E placeholder \in cur.remaining :
          /\ texOut' = ReplaceAll(texOut, placeholder, <<cur.imageCommands[placeholder]>>)
          /\ cur' = [cur EXCEPT !.remaining = @ \ {placeholder}]
    /\ UNCHANGED <<pc, text, thumbnails, markdownOut, applied, disk, target, calls, out,
                   first, runVars, jobVars, serviceVars>>

\* `return text`
ReturnEscaped ==
    /\ pc = "restoring"
    /\ cur.remaining = {}
    /\ pc' = "escaped"
    /\ UNCHANGED <<cur, text, thumbnails, markdownOut, texOut, applied, disk, target, calls,
                   out, first, runVars, jobVars, serviceVars>>

EscapeNext ==
    \/ ProtectAndEscape
    \/ RestoreCommand
    \/ ReturnEscaped

EscapeSpec == EscapeInit /\ [][EscapeNext]_vars

\* -------------------------------------------------------- concurrent jobs
\* JobManager.CreateJob starts a goroutine per job.  Every job runs a
\* generation of its own and converts the blob of its message in
\* extractRichLinkMetadata, through a file whose name is the same for all of
\* them: filepath.Join(os.TempDir(), "payload_data.plist").
JobPlists ==
    { [title |-> "", summary |-> "", imageIndex |-> <<>>, urls |-> <<>>],
      [title |-> "Rich title", summary |-> "Rich summary", imageIndex |-> <<0>>,
       urls |-> <<FaviconURL, PreviewCDN>>],
      [title |-> "Other title", summary |-> "Other summary", imageIndex |-> <<>>,
       urls |-> <<PreviewCDN>>] }

ConcInit ==
    /\ pc = "serving"
    /\ NoJobs
    /\ NoApi
    /\ NoRegistry
    /\ NoRun
    /\ disk = [writable |-> TRUE, files |-> [p \in CachePaths |-> "absent"]]
    /\ target = URL_A
    /\ calls = 0
    /\ cur = [kind |-> "none"]
    /\ out = [resolved |-> FALSE]
    /\ first = <<>>
    /\ text = <<>>
    /\ thumbnails = <<>>
    /\ markdownOut = <<>>
    /\ texOut = <<>>
    /\ applied = {}

\* CreateJob: `go jm.processJob(jobID)`; the job comes to a message with a
\* payload_data blob
CreateJob ==
    /\ Len(jobs) < MaxJobs
    /\ \E pl \in JobPlists :
          jobs' = Append(jobs, [pc |-> "start", blob |-> pl, metadata |-> <<>>])
    /\ UNCHANGED <<tmpFile, substVars, resolveVars, runVars, serviceVars>>

\* os.WriteFile(tmpFile, payloadData, 0644)
WriteBlob ==
    /\ \E j \in DOMAIN jobs :
          /\ jobs[j].pc = "start"
          /\ tmpFile' = <<jobs[j].blob>>
          /\ jobs' = [jobs EXCEPT ![j].pc = "written"]
    /\ UNCHANGED <<substVars, resolveVars, runVars, serviceVars>>

\* exec.Command("plutil", "-p", tmpFile).Output() and the parsing of its
\* output: plutil fails when the file is gone
RunPlutil ==
    /\ \E j \in DOMAIN jobs :
          /\ jobs[j].pc = "written"
          /\ jobs' = IF tmpFile = <<>>
                     THEN [jobs EXCEPT ![j].pc = "failed"]
                     ELSE [jobs EXCEPT ![j].pc = "parsed",
                                       ![j].metadata =
                                           <<extractRichLinkMetadata(tmpFile[1], target)>>]
    /\ UNCHANGED <<tmpFile, substVars, resolveVars, runVars, serviceVars>>

\* the deferred os.Remove(tmpFile), on return
RemoveTmpFile ==
    /\ \E j \in DOMAIN jobs :
          /\ jobs[j].pc \in {"parsed", "failed"}
          /\ tmpFile' = <<>>
          /\ jobs' = [jobs EXCEPT ![j].pc = "returned"]
    /\ UNCHANGED <<substVars, resolveVars, runVars, serviceVars>>

ConcNext ==
    \/ CreateJob
    \/ WriteBlob
    \/ RunPlutil
    \/ RemoveTmpFile

ConcSpec == ConcInit /\ [][ConcNext]_vars

\* ------------------------------------ concurrent resolutions of one URL
\* Jobs whose generations run at the same time on the same AttachmentsPath
\* resolve the same URL: ProcessURL (os.Stat, then generateDomainCard) or
\* createThumbnailFromMetadata (no os.Stat; here with metadata that offers
\* no image and no icon, so that it goes to generateDomainCard at once).
\* No lock is taken anywhere in package urlprocessor.
RaceInit ==
    /\ pc = "serving"
    /\ NoJobs
    /\ NoApi
    /\ NoRegistry
    /\ NoRun
    /\ target \in AllURLs
    /\ \E w \in BOOLEAN, c \in {"absent", "old", "empty"} :
          disk = [writable |-> w,
                  files |-> [p \in CachePaths |->
                                IF p = CachePath(target) THEN c ELSE "absent"]]
    /\ calls = 0
    /\ cur = [kind |-> "none"]
    /\ out = [resolved |-> FALSE]
    /\ first = <<>>
    /\ text = <<>>
    /\ thumbnails = <<>>
    /\ markdownOut = <<>>
    /\ texOut = <<>>
    /\ applied = {}

\* a job reaches the URL: ProcessURL up to the os.Stat, or
\* createThumbnailFromMetadata up to its fallback
BeginResolution ==
    /\ Len(jobs) < MaxJobs
    /\ \E kind \in {"plain", "metadata"} :
          jobs' = Append(jobs, [kind |-> kind,
                                pc |-> IF kind = "plain" THEN "stat" ELSE "generate",
                                generated |-> FALSE,
                                result |-> URLThumbnail(target, "", "", FALSE)])
    /\ UNCHANGED <<tmpFile, substVars, resolveVars, runVars, serviceVars>>

\* ProcessURL: `if _, err := os.Stat(thumbnailPath); err == nil { ... return }`
StatCache ==
    /\ \E j \in DOMAIN jobs :
          /\ jobs[j].pc = "stat"
          /\ jobs' = IF CacheHit(disk, CachePath(target))
                     THEN [jobs EXCEPT ![j].pc = "returned",
                                       ![j].result.ThumbnailPath = CachePath(target),
                                       ![j].result.Success = TRUE,
                                       ![j].result.Title = extractDomainTitle(target)]
                     ELSE [jobs EXCEPT ![j].pc = "generate"]
    /\ UNCHANGED <<tmpFile, substVars, resolveVars, runVars, serviceVars>>

\* generateDomainCard and the assignments that follow it in both callers
GenerateCard ==
    /\ \E j \in DOMAIN jobs, env \in PlainEnvs :
          /\ jobs[j].pc = "generate"
          /\ LET st == generateDomainCard(target, CachePath(target), env.card,
                                          Resolution(jobs[j].result, disk))
             IN  /\ disk' = st.disk
                 /\ jobs' = [jobs EXCEPT
                        ![j].pc = "returned",
                        ![j].generated = st.ok,
                        ![j].result =
                            IF st.ok
                            THEN [st.result EXCEPT !.Success = TRUE,
                                                   !.ThumbnailPath = CachePath(target)]
                            ELSE st.result]
    /\ UNCHANGED <<tmpFile, substVars, pc, target, calls, cur, out, first, runVars, serviceVars>>

RaceNext ==
    \/ BeginResolution
    \/ StatCache
    \/ GenerateCard

RaceSpec == RaceInit /\ [][RaceNext]_vars

\* --------------------------------------------------- the plugin registry
\* plugin IDs in the order of Go's string comparison
PluginIDs == <<"pdf", "tex", "text">>
\* plugin values: several plugin objects can answer the same ID()
Plugins ==
    {[ID |-> id, impl |-> n] :
        id \in {""} \cup {PluginIDs[i] : i \in DOMAIN PluginIDs}, n \in 1..MaxImpls}

RegistryExists(reg, id) == id \in DOMAIN reg

\* Registry.Register: the map after the call and the error returned
Register_Overwrite(reg, plugin) ==
    IF plugin.ID = ""
    THEN [plugins |-> reg, err |-> <<"plugin ID cannot be empty">>]
    ELSE [plugins |-> [id \in DOMAIN reg \cup {plugin.ID} |->
                          IF id = plugin.ID THEN plugin ELSE reg[id]],
          err |-> IF RegistryExists(reg, plugin.ID)
                  THEN <<"plugin with ID '", plugin.ID, "' already registered">>
                  ELSE <<>>]
Register(reg, plugin) ==
    IF plugin.ID = ""
    THEN [plugins |-> reg, err |-> <<"plugin ID cannot be empty">>]
    ELSE IF RegistryExists(reg, plugin.ID)
    THEN [plugins |-> reg,
          err |-> <<"plugin with ID '", plugin.ID, "' already registered">>]
    ELSE [plugins |-> [id \in DOMAIN reg \cup {plugin.ID} |->
                          IF id = plugin.ID THEN plugin ELSE reg[id]],
          err |-> <<>>]

\* Registry.Get: the plugin and the error
Get(reg, id) ==
    IF RegistryExists(reg, id)
    THEN [plugin |-> reg[id], err |-> <<>>]
    ELSE [plugin |-> NoPlugin, err |-> <<"plugin '", id, "' not found">>]

\* Registry.List: the registered plugins sorted by ID
List(reg) ==
    LET upTo[i \in 0..Len(PluginIDs)] ==
            IF i = 0 THEN <<>>
            ELSE IF RegistryExists(reg, PluginIDs[i])
                 THEN Append(upTo[i - 1], reg[PluginIDs[i]])
                 ELSE upTo[i - 1]
    IN  upTo[Len(PluginIDs)]

NoWork ==
    /\ pc = "serving"
    /\ NoJobs
    /\ NoRun
    /\ disk = [writable |-> TRUE, files |-> [p \in CachePaths |-> "absent"]]
    /\ target = URL_A
    /\ calls = 0
    /\ cur = [kind |-> "none"]
    /\ out = [resolved |-> FALSE]
    /\ first = <<>>
    /\ text = <<>>
    /\ thumbnails = <<>>
    /\ markdownOut = <<>>
    /\ texOut = <<>>
    /\ applied = {}

\* NewRegistry
RegistryInit ==
    /\ NoWork
    /\ NoApi
    /\ NoRegistry

RegisterPlugin ==
    /\ \E plugin \in Plugins :
          LET r == Register(registry, plugin)
          IN  /\ registry' = r.plugins
              /\ registerCall' = [plugin |-> plugin, err |-> r.err]
    /\ UNCHANGED <<substVars, resolveVars, runVars, jobVars, apiVars>>

RegistryNext == RegisterPlugin

RegistrySpec == RegistryInit /\ [][RegistryNext]_vars

\* ---------------------------------------------------------- the HTTP API
StatusPending == "pending"
StatusRunning == "running"
StatusCompleted == "completed"
StatusFailed == "failed"
JobStatus == {StatusPending, StatusRunning, StatusCompleted, StatusFailed}

\* bodies of POST /api/generate: does the JSON decode, and its database_path
GenerateRequests ==
    {[decodes |-> FALSE, DatabasePath |-> ""],
     [decodes |-> TRUE, DatabasePath |-> ""],
     [decodes |-> TRUE, DatabasePath |-> "chat.db"]}

\* the Job struct built by CreateJob; Result is "is a result set"
NewJob == [Status |-> StatusPending, Result |-> FALSE, Error |-> "",
           UpdatedAt |-> "created"]

\* JobManager.CreateJob under jm.mutex.Lock: a fresh ID (uuid.New), the
\* struct stored under it
JobManagerCreateJob(heap, ids) ==
    [apiJobs |-> Append(heap, NewJob),
     jobs |-> ids \cup {Len(heap) + 1},
     id |-> Len(heap) + 1]

respondError(statusCode, message) ==
    [code |-> statusCode, Error |-> message, created |-> FALSE, seen |-> <<>>]

\* Handler.handleGenerate: the response, and the Job structs and the jobs
\* map after it
handleGenerate_CreateFirst(req, heap, ids) ==
    IF ~req.decodes
    THEN [response |-> respondError(400, "Invalid request body"),
          apiJobs |-> heap, jobs |-> ids]
    ELSE LET c == JobManagerCreateJob(heap, ids)
         IN  IF req.DatabasePath = ""
             THEN [response |-> [respondError(400, "database_path is required")
                                    EXCEPT !.created = TRUE],
                   apiJobs |-> c.apiJobs, jobs |-> c.jobs]
             ELSE [response |-> [code |-> 202, Error |-> "", created |-> TRUE,
                                 seen |-> <<>>],
                   apiJobs |-> c.apiJobs, jobs |-> c.jobs]
handleGenerate(req, heap, ids) ==
    IF ~req.decodes
    THEN [response |-> respondError(400, "Invalid request body"),
          apiJobs |-> heap, jobs |-> ids]
    ELSE IF req.DatabasePath = ""
    THEN [response |-> respondError(400, "database_path is required"),
          apiJobs |-> heap, jobs |-> ids]
    ELSE LET c == JobManagerCreateJob(heap, ids)
         IN  [response |-> [code |-> 202, Error |-> "", created |-> TRUE,
                            seen |-> <<>>],
              apiJobs |-> c.apiJobs, jobs |-> c.jobs]

\* processJob, first locked section: job.Status = JobStatusRunning
markRunning(job) ==
    [job EXCEPT !.Status = StatusRunning, !.UpdatedAt = "running"]

\* processJob, second locked section: the outcome of Generate
recordOutcome_Requeue(job, err) ==
    IF err
    THEN [job EXCEPT !.Status = StatusPending, !.Error = "generation failed",
                     !.UpdatedAt = "finished"]
    ELSE [job EXCEPT !.Status = StatusCompleted, !.Result = TRUE,
                     !.UpdatedAt = "finished"]
recordOutcome(job, err) ==
    IF err
    THEN [job EXCEPT !.Status = StatusFailed, !.Error = "generation failed",
                     !.UpdatedAt = "finished"]
    ELSE [job EXCEPT !.Status = StatusCompleted, !.Result = TRUE,
                     !.UpdatedAt = "finished"]

\* positions of processJob at which it holds jm.mutex and writes the struct
WriteSection == {"marking", "recording"}

\* what processJob is writing to the struct at this position
Writing(job, worker) ==
    IF worker.pc = "marking" THEN markRunning(job) ELSE recordOutcome(job, worker.err)

\* what a handler can read from a Job struct through its pointer: the fields
\* as they are, or, while processJob is writing them, each field before or
\* after its write, the multi-word Status possibly torn
Reads(job, worker) ==
    IF worker.pc \in WriteSection
    THEN LET new == Writing(job, worker)
         IN  [Status : {job.Status, new.Status, "torn"},
              Result : {job.Result, new.Result},
              Error : {job.Error, new.Error},
              UpdatedAt : {job.UpdatedAt, new.UpdatedAt}]
    ELSE {job}

\* NewJobManager, NewHandler
ApiInit ==
    /\ NoWork
    /\ NoApi
    /\ NoRegistry

\* POST /api/generate: handleGenerate, with CreateJob and its
\* `go jm.processJob(jobID)` when the request is accepted
HandleGenerate ==
    /\ Len(requests) < MaxRequests
    /\ \E req \in GenerateRequests :
          LET r == handleGenerate(req, apiJobs, jm.jobs)
          IN  /\ r.response.created => (jm.mutex = 0 /\ Len(apiJobs) < MaxJobs)
              /\ apiJobs' = r.apiJobs
              /\ jm' = [jm EXCEPT !.jobs = r.jobs]
              /\ workers' = IF r.response.created
                            THEN Append(workers, [pc |-> "start", err |-> FALSE])
                            ELSE workers
              /\ requests' = Append(requests,
                                 [kind |-> "generate", body |-> req,
                                  pc |-> "responded", pointers |-> {},
                                  response |-> r.response])
    /\ UNCHANGED <<substVars, resolveVars, runVars, jobVars, registryVars>>

\* processJob: Lock, look the job up; return if it is gone
ProcessJobLock ==
    /\ jm.mutex = 0
    /\ \E j \in DOMAIN workers :
          /\ workers[j].pc = "start"
          /\ IF j \in jm.jobs
             THEN /\ jm' = [jm EXCEPT !.mutex = j]
                  /\ workers' = [workers EXCEPT ![j].pc = "marking"]
             ELSE /\ jm' = jm
                  /\ workers' = [workers EXCEPT ![j].pc = "exited"]
    /\ UNCHANGED <<apiJobs, requests, substVars, resolveVars, runVars, jobVars,
                   registryVars>>

\* processJob: Status = Running, UpdatedAt, Unlock
ProcessJobMarkRunning ==
    /\ \E j \in DOMAIN workers :
          /\ workers[j].pc = "marking"
          /\ apiJobs' = [apiJobs EXCEPT ![j] = markRunning(apiJobs[j])]
          /\ jm' = [jm EXCEPT !.mutex = 0]
          /\ workers' = [workers EXCEPT ![j].pc = "generating"]
    /\ UNCHANGED <<requests, substVars, resolveVars, runVars, jobVars, registryVars>>

\* processJob: genService.Generate() returns, then Lock
ProcessJobGenerate ==
    /\ jm.mutex = 0
    /\ \E j \in DOMAIN workers, err \in BOOLEAN :
          /\ workers[j].pc = "generating"
          /\ jm' = [jm EXCEPT !.mutex = j]
          /\ workers' = [workers EXCEPT ![j] = [pc |-> "recording", err |-> err]]
    /\ UNCHANGED <<apiJobs, requests, substVars, resolveVars, runVars, jobVars,
                   registryVars>>

\* processJob: UpdatedAt, Status, Error or Result, deferred Unlock
ProcessJobRecord ==
    /\ \E j \in DOMAIN workers :
          /\ workers[j].pc = "recording"
          /\ apiJobs' = [apiJobs EXCEPT ![j] = recordOutcome(apiJobs[j], workers[j].err)]
          /\ jm' = [jm EXCEPT !.mutex = 0]
          /\ workers' = [workers EXCEPT ![j].pc = "exited"]
    /\ UNCHANGED <<requests, substVars, resolveVars, runVars, jobVars, registryVars>>

\* GET /api/jobs/{job_id}: handleGetJobStatus up to the return of GetJob
\* (RLock, lookup, RUnlock): a pointer to the struct, or 404
HandleGetJobStatus ==
    /\ Len(requests) < MaxRequests
    /\ jm.mutex = 0
    /\ \E id \in 1..MaxJobs :
          requests' = Append(requests,
              IF id \in jm.jobs
              THEN [kind |-> "get", body |-> id, pc |-> "reading", pointers |-> {id},
                    response |-> [code |-> 0, Error |-> "", created |-> FALSE,
                                  seen |-> <<>>]]
              ELSE [kind |-> "get", body |-> id, pc |-> "responded", pointers |-> {},
                    response |-> respondError(404, "Job not found")])
    /\ UNCHANGED <<apiJobs, jm, workers, substVars, resolveVars, runVars, jobVars,
                   registryVars>>

\* GET /api/jobs: handleListJobs up to the return of ListJobs (RLock, copy
\* of the pointers, RUnlock)
HandleListJobs ==
    /\ Len(requests) < MaxRequests
    /\ jm.mutex = 0
    /\ requests' = Append(requests,
                       [kind |-> "list", body |-> 0, pc |-> "reading",
                        pointers |-> jm.jobs,
                        response |-> [code |-> 0, Error |-> "", created |-> FALSE,
                                      seen |-> <<>>]])
    /\ UNCHANGED <<apiJobs, jm, workers, substVars, resolveVars, runVars, jobVars,
                   registryVars>>

\* the rest of handleGetJobStatus and handleListJobs: the fields of each
\* struct are read through its pointer, jm.mutex is not held
ReadJobs ==
    /\ \E r \in DOMAIN requests :
          /\ requests[r].pc = "reading"
          /\ \E seen \in [requests[r].pointers -> UNION {Reads(apiJobs[j], workers[j]) :
                                                         j \in requests[r].pointers}] :
                /\ \A j \in requests[r].pointers : seen[j] \in Reads(apiJobs[j], workers[j])
                /\ requests' = [requests EXCEPT
                       ![r].pc = "responded",
                       ![r].response = [code |-> 200, Error |-> "", created |-> FALSE,
                                        seen |-> seen]]
    /\ UNCHANGED <<apiJobs, jm, workers, substVars, resolveVars, runVars, jobVars,
                   registryVars>>

\* JobManager.DeleteJob: Lock, delete(jm.jobs, jobID)
DeleteJob ==
    /\ jm.mutex = 0
    /\ \E j \in jm.jobs : jm' = [jm EXCEPT !.jobs = @ \ {j}]
    /\ UNCHANGED <<apiJobs, workers, requests, substVars, resolveVars, runVars, jobVars,
                   registryVars>>

ApiNext ==
    \/ HandleGenerate
    \/ ProcessJobLock
    \/ ProcessJobMarkRunning
    \/ ProcessJobGenerate
    \/ ProcessJobRecord
    \/ HandleGetJobStatus
    \/ HandleListJobs
    \/ ReadJobs
    \/ DeleteJob

ApiSpec == ApiInit /\ [][ApiNext]_vars

\* ------------------------------------------------------ one generation run
\* processAllURLs (texgen and markdown generators) and processURLs (TeX
\* plugin) over a list of at most MaxMessages messages.
RunPlists ==
    { [title |-> "", summary |-> "", imageIndex |-> <<>>, urls |-> <<>>],
      [title |-> "Rich title", summary |-> "Rich summary", imageIndex |-> <<0>>,
       urls |-> <<FaviconURL, PreviewCDN>>] }

RunDBMessages ==
    { DBMessage(FALSE, <<>>, FALSE, FALSE, <<>>),
      DBMessage(TRUE, <<>>, FALSE, FALSE, <<>>) }
    \cup {DBMessage(TRUE, <<pl>>, FALSE, FALSE, <<>>) : pl \in RunPlists}
    \cup {DBMessage(TRUE, <<pl>>, TRUE, FALSE, <<>>) : pl \in RunPlists}
    \cup {DBMessage(TRUE, <<pl>>, TRUE, TRUE, atts) : pl \in RunPlists, atts \in AttachmentLists}

\* the tools fail up to one strategy, which succeeds (or none does)
RunEnvs ==
    { [attach |-> <<"missing", "ok">>, image |-> "ok", icon |-> "ok", card |-> TRUE],
      [attach |-> <<"convert_fail", "missing">>, image |-> "ok", icon |-> "ok", card |-> TRUE],
      [attach |-> <<"missing", "missing">>, image |-> "empty", icon |-> "ok", card |-> TRUE],
      [attach |-> <<"missing", "missing">>, image |-> "curl_fail", icon |-> "convert_fail", card |-> TRUE],
      [attach |-> <<"missing", "convert_fail">>, image |-> "curl_fail", icon |-> "curl_fail", card |-> FALSE] }

MessageTexts == {<<>>} \cup {<<t>> : t \in Corpus \cup {<<>>}}

Init ==
    /\ \E w \in BOOLEAN, old \in SUBSET {CachePath(URL_A), CachePath(URL_B)} :
          disk = [writable |-> w,
                  files |-> [p \in CachePaths |-> IF p \in old THEN "old" ELSE "absent"]]
    /\ pc = "loop"
    /\ NoRun
    /\ NoJobs
    /\ NoApi
    /\ NoRegistry
    /\ text = <<>>
    /\ thumbnails = <<>>
    /\ markdownOut = <<>>
    /\ texOut = <<>>
    /\ applied = {}
    /\ target = <<>>
    /\ calls = 0
    /\ cur = [kind |-> "none"]
    /\ out = [resolved |-> FALSE]
    /\ first = <<>>

idle == <<thumbnails, markdownOut, texOut, applied, target, calls, cur, out, first, jobVars, serviceVars>>

\* `for _, msg := range messages` up to `if len(urls) > 0`
ReadMessage ==
    /\ pc = "loop"
    /\ msgCount < MaxMessages
    /\ msgCount' = msgCount + 1
    /\ \E msgText \in MessageTexts :
          IF msgText = <<>>
          THEN /\ UNCHANGED <<text, urls, extracted, msg>>
               /\ pc' = "loop"
          ELSE /\ text' = msgText[1]
               /\ urls' = FindURLsInText(msgText[1])
               /\ extracted' = extracted \cup Range(urls')
               /\ pc' = IF Len(urls') > 0 THEN "previews" ELSE "loop"
               /\ msg' = IF Len(urls') > 0
                         THEN [blobFailed |-> FALSE, before |-> processedURLs]
                         ELSE NoMessage
    /\ next' = 1
    /\ UNCHANGED <<disk, urlThumbnails, processedURLs, pipelineRuns, resolvedBy, idle>>

\* ProcessMessageForURLPreviews and the loop that stores its results
ProcessPreviews ==
    /\ pc = "previews"
    /\ \E db \in RunDBMessages, env \in RunEnvs :
          LET r == ProcessMessageForURLPreviews(text, db, env, disk)
              merged == mergePreviews(urlThumbnails, processedURLs, r.results,
                                      DOMAIN r.results)
          IN  /\ disk' = r.disk
              /\ urlThumbnails' = merged.urlThumbnails
              /\ processedURLs' = merged.processedURLs
              /\ pipelineRuns' = IF r.ran
                                 THEN [pipelineRuns EXCEPT ![r.url] = @ + 1]
                                 ELSE pipelineRuns
              /\ msg' = [msg EXCEPT !.blobFailed = BlobFailed(db)]
              /\ resolvedBy' = [u \in merged.processedURLs |->
                                   IF u \in processedURLs THEN resolvedBy[u]
                                   ELSE "metadata"]
    /\ pc' = "fallback"
    /\ UNCHANGED <<text, msgCount, urls, next, extracted, idle>>

\* one iteration of the loop over urls
FallbackURL ==
    /\ pc = "fallback"
    /\ next <= Len(urls)
    /\ LET url == urls[next]
       IN  IF notProcessed(processedURLs, url)
           THEN \E env \in PlainEnvs :
                   LET st == ProcessURL(url, env, disk)
                   IN  /\ disk' = st.disk
                       /\ urlThumbnails' = storeThumbnail(urlThumbnails, url, st.result)
                       /\ processedURLs' = processedURLs \cup {url}
                       /\ pipelineRuns' = [pipelineRuns EXCEPT ![url] = @ + 1]
                       /\ resolvedBy' = Put(resolvedBy, url, "plain")
           ELSE UNCHANGED <<disk, urlThumbnails, processedURLs, pipelineRuns, resolvedBy>>
    /\ next' = next + 1
    /\ UNCHANGED <<pc, text, msgCount, urls, extracted, msg, idle>>

EndMessage ==
    /\ pc = "fallback"
    /\ next > Len(urls)
    /\ pc' = "loop"
    /\ msg' = NoMessage
    /\ UNCHANGED <<disk, text, msgCount, urls, next, urlThumbnails, processedURLs,
                   extracted, pipelineRuns, resolvedBy, idle>>

\* the list is exhausted: the mapping is returned
Finish ==
    /\ pc = "loop"
    /\ pc' = "finished"
    /\ UNCHANGED <<disk, text, runVars, idle>>

Next ==
    \/ ReadMessage
    \/ ProcessPreviews
    \/ FallbackURL
    \/ EndMessage
    \/ Finish

Spec == Init /\ [][Next]_vars

\* =========================================================================
\* Properties of one resolver (ResolveSpec)
\* =========================================================================
Resolved1 == pc = "returned" /\ out.resolved

\* C1: whatever the metadata and the attachments are, a resolution returns a
\* URLThumbnail for the URL it was asked about, with Success true or false,
\* and does not panic.
C1_TotalResolution ==
    Resolved1 =>
        /\ ~out.panicked
        /\ out.result.URL = cur.url
        /\ out.result.Success \in BOOLEAN

C1_Witness ==
    /\ Resolved1
    /\ cur.kind = "metadata"
    /\ cur.metadata.HasImage
    /\ cur.metadata.ImageIndex >= Len(cur.attachments)
    /\ ~out.result.Success

OffersBoth ==
    /\ cur.kind = "metadata"
    /\ cur.metadata.HasImage
    /\ cur.metadata.ImageIndex < Len(cur.attachments)
    /\ cur.metadata.ImageURL # ""

\* C2: when the metadata offers an attachment and an image URL, the
\* attachment copy is the first strategy attempted, and the image URL is
\* downloaded only after an attachment copy that failed.
C2_AttachmentBeforeImageURL ==
    (Resolved1 /\ OffersBoth) =>
        /\ out.trace # <<>>
        /\ out.trace[1].strategy = "attachment"
        /\ \A i \in 1..Len(out.trace) :
              out.trace[i].strategy = "image" =>
                  \E j \in 1..(i - 1) :
                      out.trace[j].strategy = "attachment" /\ ~out.trace[j].ok

C2_Witness ==
    /\ Resolved1
    /\ OffersBoth
    /\ Len(out.trace) >= 2
    /\ out.trace[1] = Attempt("attachment", FALSE, 2)
    /\ out.trace[2].strategy = "image"
    /\ out.trace[2].ok

\* C3: a resolution that finds the cache file of its URL returns success with
\* the cached path, attempts no strategy and leaves the file as it was,
\* with or without metadata.
C3_CacheHitShortCircuits ==
    (Resolved1 /\ out.fileBefore # "absent") =>
        /\ out.result.Success
        /\ out.result.ThumbnailPath = CachePath(cur.url)
        /\ out.trace = <<>>
        /\ disk.files[CachePath(cur.url)] = out.fileBefore

\* C4: after a first resolution of a URL that succeeded, every later
\* resolution of the same URL starts no external process and returns the
\* thumbnail path of the first.
C4_SecondCallIsCacheRead ==
    (Resolved1 /\ calls >= 2 /\ first[1].Success) =>
        /\ Procs(out.trace) = 0
        /\ out.result.ThumbnailPath = first[1].ThumbnailPath

\* C10: a returned URLThumbnail has a thumbnail path exactly when it reports
\* success.
C10_PathIffSuccess ==
    Resolved1 => (out.result.ThumbnailPath # NoPath <=> out.result.Success)

C10_Witness ==
    /\ Resolved1
    /\ Len(out.trace) >= 3
    /\ ~out.trace[1].ok
    /\ out.trace[2] = Attempt("image", FALSE, 2)
    /\ ~out.result.Success
    /\ out.result.ThumbnailPath = NoPath

LastAttempt == out.trace[Len(out.trace)]

\* C11: a resolution returns Success = false only when the domain card, the
\* final fallback, was being written and that failed (a failing run of the
\* magick invocation that writes the card counts as a filesystem-level
\* failure); nothing about the URL itself makes a resolution fail.
C11_FailsOnlyOnCardWriteFailure ==
    (Resolved1 /\ ~out.result.Success) =>
        /\ out.trace # <<>>
        /\ LastAttempt.strategy = "card"
        /\ LastAttempt.procs = 1

\* C12: with an unwritable cache directory (and no cache file to hit), a
\* resolution returns Success = false and a non-empty Error, and both
\* substitution functions leave the URL as it was in the text.
C12_UnwritableCacheReportsError ==
    (Resolved1 /\ ~disk.writable /\ out.fileBefore = "absent") =>
        /\ ~out.result.Success
        /\ out.result.Error # ""
        /\ ReplaceURLsWithImages(cur.url, Put(<<>>, cur.url, out.result)) = cur.url
        /\ replaceURLsWithImages(cur.url, Put(<<>>, cur.url, out.result)) = cur.url

\* C14: on the plain path with no cache file, the domain card is generated
\* only after a live-page fetch (Open Graph image, else favicon) was
\* attempted and failed.
C14_LiveFetchBeforeDomainCard ==
    (Resolved1 /\ cur.kind = "plain" /\ out.fileBefore = "absent") =>
        \A j \in 1..Len(out.trace) :
            out.trace[j].strategy = "card" =>
                \E i \in 1..(j - 1) :
                    out.trace[i].strategy = "fetch" /\ ~out.trace[i].ok

\* C15: a resolution that ends in a generated domain card reports success
\* and has the capitalised domain of the URL as its title.
C15_DomainCardTitleCapitalised ==
    (Resolved1 /\ out.trace # <<>> /\ LastAttempt = Attempt("card", TRUE, 1)) =>
        /\ out.result.Success
        /\ out.result.Title = Capitalize(StripWWW(Host(cur.url)))

\* C19: when a resolution returns Success = true, the file at its
\* ThumbnailPath exists and is not empty.
C19_SuccessHasNonEmptyFile ==
    (Resolved1 /\ out.result.Success) =>
        /\ out.result.ThumbnailPath \in CachePaths
        /\ disk.files[out.result.ThumbnailPath] \notin {"absent", "empty"}

\* C18: no resolution is left waiting for ever on an external process:
\* every process it starts is bounded by a timeout, so that one that never
\* exits is killed and counts as a failure of its strategy.
C18_EveryProcessIsBounded ==
    pc # "blocked"

Attempted(strategy) == \E i \in 1..Len(out.trace) : out.trace[i].strategy = strategy

\* C22: the attachment copy is attempted exactly when the blob carried an
\* image attachment index and that index is within the attachment list;
\* otherwise no attachment is read, and in neither case is an error raised.
C22_AttachmentCopyIffIndexInRange ==
    (Resolved1 /\ cur.kind = "metadata") =>
        /\ ~out.panicked
        /\ Attempted("attachment") <=>
              (cur.blobIndex # <<>> /\ cur.blobIndex[1] < Len(cur.attachments))

Rank(strategy) ==
    CASE strategy = "attachment" -> 1
      [] strategy = "image"      -> 2
      [] strategy = "icon"       -> 3
      [] OTHER                   -> 4

\* the strategies the metadata and the attachments make applicable
Applicable ==
    {"card"}
    \cup (IF cur.metadata.HasImage /\ cur.metadata.ImageIndex < Len(cur.attachments)
          THEN {"attachment"} ELSE {})
    \cup (IF cur.metadata.HasImage /\ cur.metadata.ImageURL # "" THEN {"image"} ELSE {})
    \cup (IF cur.metadata.HasIcon /\ cur.metadata.IconURL # "" THEN {"icon"} ELSE {})

\* C26: in the metadata path the strategies run in the order attachment,
\* image, icon, card; each one runs only after every earlier applicable one
\* has run and failed; nothing runs after the first success, and the result
\* is the one the successful strategy produced.
C26_StrictFallbackOrder ==
    (Resolved1 /\ cur.kind = "metadata") =>
        /\ \A i, j \in 1..Len(out.trace) :
              i < j => /\ Rank(out.trace[i].strategy) < Rank(out.trace[j].strategy)
                       /\ ~out.trace[i].ok
        /\ \A j \in 1..Len(out.trace) :
              /\ out.trace[j].strategy \in Applicable
              /\ \A s \in Applicable :
                    Rank(s) < Rank(out.trace[j].strategy) => Attempted(s)
        /\ (out.trace = <<>> \/ ~LastAttempt.ok) => \A s \in Applicable : Attempted(s)
        /\ (out.trace # <<>> /\ LastAttempt.ok) =>
              /\ out.result.Success
              /\ out.result.ThumbnailPath = CachePath(cur.url)
              /\ disk.files[CachePath(cur.url)] = LastAttempt.strategy
              /\ LastAttempt.strategy # "card" =>
                    /\ out.result.Title = cur.metadata.Title
                    /\ out.result.Description = cur.metadata.Summary

C26_Witness ==
    /\ Resolved1
    /\ cur.kind = "metadata"
    /\ Len(out.trace) = 3
    /\ out.trace[1] = Attempt("attachment", FALSE, 1)
    /\ out.trace[2] = Attempt("image", FALSE, 1)
    /\ out.trace[3] = Attempt("icon", TRUE, 2)

\* C27: when the metadata path ends in the generated domain card, the
\* result keeps the title and the description taken from the metadata.
C27_CardKeepsMetadataTitle ==
    (/\ Resolved1
     /\ cur.kind = "metadata"
     /\ cur.metadata.Title # ""
     /\ out.trace # <<>>
     /\ LastAttempt = Attempt("card", TRUE, 1)) =>
        /\ out.result.Title = cur.metadata.Title
        /\ out.result.Description = cur.metadata.Summary

\* =========================================================================
\* Properties of the metadata parser (ClassifySpec)
\* =========================================================================
BlobURLsWith(sub) == {u \in Range(cur.plist.urls) : Contains(u, sub)}

\* C16: when the URLs of a blob include one that contains cdn-link-previews
\* and one that contains favicon, the parsed metadata has the
\* cdn-link-previews URL as its image URL and the favicon URL as its icon URL.
C16_ClassificationHeuristic ==
    (/\ pc = "parsed"
     /\ BlobURLsWith("cdn-link-previews") # {}
     /\ BlobURLsWith("favicon") # {}) =>
        /\ cur.metadata.ImageURL \in BlobURLsWith("cdn-link-previews")
        /\ cur.metadata.IconURL \in BlobURLsWith("favicon")

\* =========================================================================
\* Properties of concurrent resolutions of one URL (RaceSpec)
\* =========================================================================
\* C21: of the resolutions of one URL that run concurrently on one cache
\* directory, at most one generates and writes the cache file.
C21_OneWriterPerCacheFile ==
    Cardinality({j \in DOMAIN jobs : jobs[j].generated}) <= 1

\* =========================================================================
\* Properties of the plugin registry (RegistrySpec)
\* =========================================================================
\* C25: a Register call for a plugin whose ID is already registered returns
\* an error and leaves the registry as it was: Get for that ID returns the
\* plugin registered first and List keeps its length.
C25_DuplicateRegisterRejected ==
    [][(registerCall' # registerCall \/ registry' # registry)
       => LET id == registerCall'.plugin.ID
          IN  RegistryExists(registry, id)
              => /\ registerCall'.err # <<>>
                 /\ Get(registry', id) = Get(registry, id)
                 /\ Len(List(registry')) = Len(List(registry))
                 /\ registry' = registry]_vars

C25_Witness ==
    /\ registerCall.err = <<"plugin with ID '", registerCall.plugin.ID, "' already registered">>
    /\ Get(registry, registerCall.plugin.ID).err = <<>>
    /\ Get(registry, registerCall.plugin.ID).plugin # registerCall.plugin
    /\ Len(List(registry)) = 2

\* =========================================================================
\* Properties of the HTTP API (ApiSpec)
\* =========================================================================
\* C23: the Status of a job is one of pending, running, completed, failed;
\* a job is created pending, and its Status only goes from pending to
\* running and from running to completed or failed, whatever CreateJob,
\* processJob, GetJob, ListJobs and DeleteJob do in between.
C23_StatusLifecycle ==
    [][/\ Len(apiJobs') >= Len(apiJobs)
       /\ \A j \in DOMAIN apiJobs' :
             /\ apiJobs'[j].Status \in JobStatus
             /\ j \notin DOMAIN apiJobs => apiJobs'[j].Status = StatusPending
             /\ j \in DOMAIN apiJobs =>
                   \/ apiJobs'[j].Status = apiJobs[j].Status
                   \/ /\ apiJobs[j].Status = StatusPending
                      /\ apiJobs'[j].Status = StatusRunning
                   \/ /\ apiJobs[j].Status = StatusRunning
                      /\ apiJobs'[j].Status \in {StatusCompleted, StatusFailed}]_vars

\* one job failed and another completed, one of them deleted from the map
C23_Witness ==
    /\ \E j \in DOMAIN apiJobs : apiJobs[j].Status = StatusFailed
    /\ \E j \in DOMAIN apiJobs : apiJobs[j].Status = StatusCompleted /\ j \notin jm.jobs

\* C24: POST /api/generate without database_path is answered with 400 and
\* "database_path is required", and the jobs of the job manager stay as
\* they were.
C24_MissingDatabasePathRejected ==
    [][(/\ Len(requests') = Len(requests) + 1
        /\ requests'[Len(requests')].kind = "generate"
        /\ requests'[Len(requests')].body.decodes
        /\ requests'[Len(requests')].body.DatabasePath = "")
       => /\ requests'[Len(requests')].response.code = 400
          /\ requests'[Len(requests')].response.Error = "database_path is required"
          /\ jm'.jobs = jm.jobs
          /\ apiJobs' = apiJobs
          /\ workers' = workers]_vars

\* a request without database_path was rejected while the manager had a job
C24_Witness ==
    /\ jm.jobs # {}
    /\ \E r \in DOMAIN requests :
          /\ requests[r].kind = "generate"
          /\ requests[r].body = [decodes |-> TRUE, DatabasePath |-> ""]
          /\ requests[r].response.code = 400
          /\ \E q \in 1..(r - 1) : requests[q].response.code = 202

\* C30: no handler reads the fields of a Job struct while processJob is in
\* a locked section that writes the fields of the same struct.
C30_NoReadDuringWrite ==
    \A r \in DOMAIN requests :
        requests[r].pc = "reading"
            => \A j \in requests[r].pointers : workers[j].pc \notin WriteSection

\* =========================================================================
\* Properties of escapeLaTeX (EscapeSpec)
\* =========================================================================
\* C29: the escaped text holds the image commands of the input, each one
\* verbatim and at its place among the others, in whatever order the
\* placeholders were restored.
C29_EscapePreservesImageCommands ==
    pc = "escaped" =>
        /\ Len(texOut) = Len(text)
        /\ \A k \in 1..Len(text) : IsImageCommand(text[k]) => texOut[k] = text[k]

\* =========================================================================
\* Properties of concurrent jobs (ConcSpec)
\* =========================================================================
\* C20: jobs that run concurrently do not affect each other's resolutions:
\* the metadata a job has parsed for its message is the metadata of that
\* message's own blob.
C20_MetadataFromOwnBlob ==
    \A j \in DOMAIN jobs :
        jobs[j].metadata # <<>> =>
            jobs[j].metadata[1] = extractRichLinkMetadata(jobs[j].blob, target)

\* =========================================================================
\* Properties of a generation run (Spec)
\* =========================================================================
\* C5: within one run the resolution pipeline (metadata path or plain path)
\* is executed at most once for a URL, however many messages contain it.
C5_ProcessedAtMostOnce ==
    \A u \in AllURLs : pipelineRuns[u] <= 1

\* C6: when the run has gone through its messages, the mapping has an entry
\* for every URL extracted from the message texts and for nothing else.
C6_OneEntryPerExtractedURL ==
    pc = "finished" => DOMAIN urlThumbnails = extracted

C6_Witness ==
    /\ pc = "finished"
    /\ msgCount = MaxMessages
    /\ Cardinality(extracted) >= 2
    /\ \E u \in extracted : ~urlThumbnails[u].Success
    /\ \E u \in extracted : urlThumbnails[u].Success

\* C13: when reading or converting the blob of a message failed, the run
\* goes on, and by the end of that message every URL of its text has an
\* entry; the entries made during the message come from ProcessURL, the path
\* that needs no metadata.
C13_BlobFailureFallsThrough ==
    (pc = "fallback" /\ next > Len(urls) /\ msg.blobFailed) =>
        \A u \in Range(urls) :
            /\ u \in DOMAIN urlThumbnails
            /\ u \notin msg.before => resolvedBy[u] = "plain"

C13_Witness ==
    /\ pc = "fallback"
    /\ next > Len(urls)
    /\ msg.blobFailed
    /\ Len(urls) >= 2
    /\ \E u \in Range(urls) : u \notin msg.before /\ urlThumbnails[u].Success
    /\ \E u \in Range(urls) : u \in msg.before

\* C7: an entry of the mapping, once stored, is never replaced or changed
\* by a later step of the run.
C7_WriteOnce ==
    [][\A u \in DOMAIN urlThumbnails :
           /\ u \in DOMAIN urlThumbnails'
           /\ urlThumbnails'[u] = urlThumbnails[u]]_vars

\* a URL whose entry came from the plain path came up again in a later
\* message, and the metadata path resolved it again and rewrote its cache file
C7_Witness ==
    \E u \in DOMAIN urlThumbnails :
        /\ pipelineRuns[u] >= 2
        /\ urlThumbnails[u].Description # "Rich summary"
        /\ disk.files[CachePath(u)] \in {"attachment", "image", "icon"}

\* =========================================================================
\* Properties of substitution (SubstSpec)
\* =========================================================================
HasThumbnail(u) == u \in DOMAIN thumbnails /\ thumbnails[u].Success

\* how often the URL regexp matches u (after trimming) in s
MatchCount(s, u) ==
    LET ms == FindAllString(s)
    IN  Cardinality({m \in 1..Len(ms) : TrimRight(ms[m], TrimCutset) = u})

\* the positions at which u occurs literally in s
Occurrences(s, u) ==
    {i \in 1..Len(s) : i + Len(u) - 1 <= Len(s) /\ SubSeq(s, i, i + Len(u) - 1) = u}

Survives(output, u) == Cardinality(Occurrences(output, u)) >= MatchCount(text, u)

UnresolvedURLs == {u \in Range(FindURLsInText(text)) : ~HasThumbnail(u)}

\* the first match of the URL regexp in s that is u once trimmed
FirstMatch(s, u) ==
    LET ms == FindAllString(s)
        at == {k \in 1..Len(ms) : TrimRight(ms[k], TrimCutset) = u}
    IN  CHOOSE k \in at : \A m \in at : k <= m

TrimmedMatches(s) ==
    LET ms == FindAllString(s)
    IN  {TrimRight(ms[k], TrimCutset) : k \in 1..Len(ms)}

\* C17: the list FindURLsInText returns holds every URL matched in the text
\* with its trailing punctuation trimmed, holds none of them twice, and
\* orders them by their first occurrence in the text.
C17_FindURLsDedupOrdered ==
    "find" \in applied =>
        /\ Range(urls) = TrimmedMatches(text)
        /\ \A i, j \in 1..Len(urls) : i # j => urls[i] # urls[j]
        /\ \A i, j \in 1..Len(urls) :
              i < j => FirstMatch(text, urls[i]) < FirstMatch(text, urls[j])

\* two matches that differ only in trailing punctuation give one URL
C17_Witness ==
    /\ "find" \in applied
    /\ Len(urls) < Len(FindAllString(text))
    /\ \E k \in 1..Len(FindAllString(text)) :
          /\ FindAllString(text)[k] \notin Range(urls)
          /\ TrimRight(FindAllString(text)[k], TrimCutset) \in Range(urls)

\* what a match of the URL regexp becomes when only the URL itself is
\* replaced: the image reference followed by the punctuation that was trimmed
KeepPunctuation(m) ==
    LET cleanURL == TrimRight(m, TrimCutset)
    IN  IF HasThumbnail(cleanURL) /\ thumbnails[cleanURL].ThumbnailPath # NoPath
        THEN <<MessageImage(JoinPath(thumbnails[cleanURL].ThumbnailPath))>>
                 \o SubSeq(m, Len(cleanURL) + 1, Len(m))
        ELSE m

RECURSIVE OnlyURLsReplaced(_, _, _)
OnlyURLsReplaced(s, ms, i) ==
    IF ms = <<>> THEN SubSeq(s, i, Len(s))
    ELSE SubSeq(s, i, Head(ms)[1] - 1)
             \o KeepPunctuation(SubSeq(s, Head(ms)[1], Head(ms)[2]))
             \o OnlyURLsReplaced(s, Tail(ms), Head(ms)[2] + 1)

\* C28: the TeX plugin's substitution replaces the URL itself and nothing
\* else: trailing punctuation that extraction trims from a resolved URL is
\* still in the output, after the image reference, and the text outside
\* the replaced URLs is unchanged.
C28_TeXKeepsTrailingPunctuation ==
    "tex" \in applied => texOut = OnlyURLsReplaced(text, FindAllIndex(text, 1), 1)

\* C8: substitution leaves every URL without a successful thumbnail unchanged
\* in the output: each place where such a URL was found in the input still
\* holds it in the output, for both substitution functions.
C8_NonDestructiveSubstitution ==
    /\ "markdown" \in applied => \A u \in UnresolvedURLs : Survives(markdownOut, u)
    /\ "tex" \in applied => \A u \in UnresolvedURLs : Survives(texOut, u)

\* the reference each resolved URL is to be replaced by
EmbedRef(u) ==
    MessageImage("Attachments/url-thumbnails/" \o Base(thumbnails[u].ThumbnailPath))

ResolvedURLs == {u \in Range(FindURLsInText(text)) : HasThumbnail(u)}

\* C9: substitution replaces each occurrence of a successfully resolved URL
\* by the reference to that URL's own thumbnail, and replaces only those
\* URLs: every URL that did not resolve is still in the output.
C9_ReplacesExactlyResolved ==
    "markdown" \in applied =>
        /\ \A u \in ResolvedURLs :
              Cardinality(Occurrences(markdownOut, <<EmbedRef(u)>>)) >= MatchCount(text, u)
        /\ \A u \in UnresolvedURLs : Survives(markdownOut, u)

====
